---- MODULE Spec2Model ----
(***************************************************************************)
(* URL shortener backend (src/backend/app.py): one MongoDB collection       *)
(* `urls` with a unique index on short_code, Flask request handlers that    *)
(* run concurrently against it, and a background job that deletes expired  *)
(* documents.                                                               *)
(*                                                                          *)
(* Every database call of a handler is one atomic step; the local code      *)
(* before it belongs to the same step.  The clock (datetime.utcnow) is a    *)
(* counter of minutes that may advance between any two steps; two steps     *)
(* that read it without an advance in between read the same timestamp.      *)
(* A Python string is a sequence of one-symbol strings.                     *)
(*                                                                          *)
(* Spec is the whole service.  SpecShorten, SpecLookup, SpecQuery and       *)
(* SpecRecent each take the handlers one group of properties is about,      *)
(* with more inputs than Spec affords.                                      *)
(***************************************************************************)
EXTENDS Integers, Sequences, FiniteSets, TLC

\* ---------------------------------------------------------------- bounds
MaxTime == 1
MaxDocs == 2
MaxVisits == 2

\* ------------------------------------------------------ program constants
CodeLength == 6
MaxCustomLen == 20
DefaultValidity == 30
RecentLimit == 5

\* ---------------------------------------------------------------- strings
Alnum == {"a", "b", "9"}
Space == " "

Rep(ch, n) == [i \in 1..n |-> ch]

RECURSIVE lstrip(_)
lstrip(s) == IF s = <<>> THEN s
             ELSE IF Head(s) = Space THEN lstrip(Tail(s)) ELSE s

RECURSIVE rstrip(_)
rstrip(s) == IF s = <<>> THEN s
             ELSE IF s[Len(s)] = Space THEN rstrip(SubSeq(s, 1, Len(s) - 1)) ELSE s

strip(s) == rstrip(lstrip(s))

\* random.choice over ascii_letters + digits, `length` times; the model draws
\* the same symbol at every position, from two symbols.
RandomChars == {"a", "b"}
generate_short_code(length) == {Rep(ch, length) : ch \in RandomChars}

is_valid_custom_code_LenOff(code) ==
    /\ code # <<>>
    /\ ~(Len(code) >= MaxCustomLen)
    /\ \A i \in 1..Len(code) : code[i] \in Alnum \/ code[i] \in {"-", "_"}

is_valid_custom_code_NoCharCheck(code) ==
    /\ code # <<>>
    /\ ~(Len(code) > MaxCustomLen)

is_valid_custom_code(code) ==
    /\ code # <<>>
    /\ ~(Len(code) > MaxCustomLen)
    /\ \A i \in 1..Len(code) : code[i] \in Alnum \/ code[i] \in {"-", "_"}

\* validators.url (third-party): the URLs it accepts among those submitted.
GoodUrl == <<"http://a.example/x">>
validators_url(u) == u = GoodUrl

\* ------------------------------------------------------------ JSON values
Absent == [t |-> "absent"]
JNum(n) == [t |-> "num", v |-> n]
JFloat(whole) == [t |-> "float", v |-> whole]
JStr(numeric, n) == [t |-> "str", numeric |-> numeric, v |-> n]

\* int(data.get('validity', 30)): the default for a missing key, truncation
\* for a float, parsing for a string of digits, ValueError otherwise.
IntOfValidity(j) ==
    CASE j.t = "absent" -> [ok |-> TRUE, v |-> DefaultValidity]
      [] j.t = "num"    -> [ok |-> TRUE, v |-> j.v]
      [] j.t = "float"  -> [ok |-> TRUE, v |-> j.v]
      [] j.t = "str"    -> IF j.numeric THEN [ok |-> TRUE, v |-> j.v]
                           ELSE [ok |-> FALSE, v |-> 0]

\* ----------------------------------------------------------------- inputs
Workers == {"w1", "w2"}

RandomA == Rep("a", CodeLength)
RandomB == Rep("b", CodeLength)
CustomA == <<"a", "-", "_", "9">>

\* The JSON bodies submitted to POST /api/shorten.  is_json is the request's
\* content type; the fields are the raw values of the body.
Body(url, custom_code, validity) ==
    [is_json |-> TRUE, url |-> url, custom_code |-> custom_code, validity |-> validity]

\* Accepted bodies: no custom code or one that a random code can equal, a
\* link that expires at once or the default validity; the same with
\* surrounding blanks, a float and a string of digits.
GoodBodies ==
    {Body(GoodUrl, c, v) : c \in {<<>>, RandomA}, v \in {Absent, JNum(0)}}
    \cup {Body(<<Space>> \o GoodUrl \o <<Space>>, <<Space>> \o RandomA, JFloat(0)),
          Body(GoodUrl, <<Space>>, JStr(TRUE, 0))}

BadBodies ==
    {[is_json |-> FALSE, url |-> GoodUrl, custom_code |-> <<>>, validity |-> Absent],
     Body(GoodUrl, RandomA, JStr(FALSE, 0)),
     Body(<<>>, RandomA, Absent),
     Body(<<Space>>, <<>>, Absent),
     Body(<<"not a url">>, <<>>, JNum(0)),
     Body(GoodUrl, <<"a", Space, "b">>, Absent),
     Body(GoodUrl, <<"a", "!">>, JNum(0)),
     Body(GoodUrl, Rep("a", MaxCustomLen + 1), Absent)}

Bodies == GoodBodies \cup BadBodies

\* Two accepted bodies: a custom code on a link that expires at once, and no
\* custom code with the default validity.
CoreBodies == {Body(GoodUrl, RandomA, JNum(0)), Body(GoodUrl, <<>>, Absent)}

\* The codes requested in a path: the codes a record can have and one that
\* no record has.
PathCodes == {RandomA, RandomB, <<"a", "!">>}

\* The codes asked of check-code and stats: also the longest valid code and
\* malformed ones.
QueryCodes == PathCodes \cup {CustomA, Rep("a", MaxCustomLen), Rep("a", MaxCustomLen + 1),
                              <<"a", Space, "b">>, <<Space, "a">>}

\* Records that earlier requests left in the collection, which persists: seed
\* i was created i minutes before the model's clock starts, with a custom code
\* of i symbols and the default validity, or, for the seeds in E, validity 0.
Seed(i, E) ==
    [original_url |-> GoodUrl,
     short_code |-> Rep("a", i),
     visits |-> 0,
     created_at |-> 0 - i,
     last_accessed |-> <<>>,
     expires_at |-> IF i \in E THEN 0 - i ELSE DefaultValidity - i,
     is_custom |-> TRUE,
     validity_minutes |-> IF i \in E THEN 0 ELSE DefaultValidity]

SeedStores ==
    {{Seed(i, E) : i \in 1..n} : n \in 0..(RecentLimit + 2),
                                  E \in {{}} \cup {{i} : i \in 1..(RecentLimit + 2)}}

\* ------------------------------------------------------------------ state
VARIABLES
    urls_collection,  \* the documents of db.urls
    now,              \* datetime.utcnow(), in minutes
    pc,               \* per shorten worker: "idle", "find", "insert", "respond"
    req,              \* per shorten worker: the locals of shorten_url
    lk,               \* the lookup request in flight (redirect / get)
    out               \* what the step just taken sent or printed: a response, the
                      \* cleanup job's count, or nothing

vars == <<urls_collection, now, pc, req, lk, out>>

None == [none |-> TRUE]
NoReq == [none |-> TRUE]
Nothing == [op |-> "none", status |-> 0]
Idle == [op |-> "none"]

\* ------------------------------------------------------- store operations
\* A find_one that skips expired documents, as check-code's query does.
find_one_Unexpired(code) ==
    IF \E d \in urls_collection : d.short_code = code /\ d.expires_at > now
    THEN CHOOSE d \in urls_collection : d.short_code = code /\ d.expires_at > now
    ELSE None

find_one(code) ==
    IF \E d \in urls_collection : d.short_code = code
    THEN CHOOSE d \in urls_collection : d.short_code = code
    ELSE None

\* The unique index on short_code: the insert is refused when the key exists.
DuplicateKey_NoIndex(code) == FALSE

DuplicateKey(code) == \E d \in urls_collection : d.short_code = code

\* {'$inc': {'visits': 1}, '$set': {'last_accessed': datetime.utcnow()}}
\* last_accessed is <<>> for None and <<t>> for the time t.
Touched_NoInc(d, t) == [d EXCEPT !.last_accessed = <<t>>]

\* An update that writes the count of a first visit instead of adding to it.
Touched_Set(d, t) == [d EXCEPT !.visits = 1, !.last_accessed = <<t>>]

\* An update with the sign of the increment wrong.
Touched_Dec(d, t) == [d EXCEPT !.visits = @ - 1, !.last_accessed = <<t>>]

\* An update that counts the visit and forgets the $set.
Touched_NoSet(d, t) == [d EXCEPT !.visits = @ + 1]

\* An update that also pushes the expiry forward from the visit.
Touched_Extend(d, t) ==
    [d EXCEPT !.visits = @ + 1, !.last_accessed = <<t>>,
              !.expires_at = t + d.validity_minutes]

Touched(d, t) == [d EXCEPT !.visits = @ + 1, !.last_accessed = <<t>>]

\* url.get('expires_at') and url['expires_at'] < datetime.utcnow()
Expired_Never(url, t) == FALSE

Expired(url, t) == url.expires_at < t

\* delete_many({'expires_at': {'$lt': t}}): the documents it matches.
CleanupFilter_Lte(d, t) == d.expires_at <= t

\* The comparison turned round.
CleanupFilter_Gt(d, t) == d.expires_at > t

CleanupFilter(d, t) == d.expires_at < t

\* find({'expires_at': {'$gt': t}}): the documents recent_urls lists.
RecentFilter_All(d, t) == TRUE

RecentFilter(d, t) == d.expires_at > t

\* find_one({'short_code': c, 'expires_at': {'$gt': t}}) of check-code.
CheckFilter_NoExpiry(d, c, t) == d.short_code = c

CheckFilter(d, c, t) == d.short_code = c /\ d.expires_at > t

MaxCreated(S) == CHOOSE m \in {d.created_at : d \in S} : \A d \in S : d.created_at <= m

\* .sort('created_at', -1): every order the sort may produce (documents with
\* equal created_at come in any order).
RECURSIVE SortDesc(_)
SortDesc(S) ==
    IF S = {} THEN {<<>>}
    ELSE UNION {{<<d>> \o rest : rest \in SortDesc(S \ {d})} :
                d \in {e \in S : e.created_at = MaxCreated(S)}}

\* .limit(n)
Limit_Off(s, n) == s

Limit(s, n) == IF Len(s) > n THEN SubSeq(s, 1, n) ELSE s

\* ------------------------------------------------------------------- Init
Init ==
    /\ urls_collection = {}
    /\ now = 0
    /\ pc = [w \in Workers |-> "idle"]
    /\ req = [w \in Workers |-> NoReq]
    /\ lk = Idle
    /\ out = Nothing

\* ------------------------------------------------- POST /api/shorten
Reply(w, r) ==
    /\ out' = r
    /\ pc' = [pc EXCEPT ![w] = "idle"]
    /\ req' = [req EXCEPT ![w] = NoReq]

Error(w, status, msg) ==
    [op |-> "shorten", status |-> status, worker |-> w, error |-> msg,
     custom_code |-> IF req[w] = NoReq THEN <<>> ELSE req[w].custom_code]

\* Lines 66-100: parse the body, validate, compute expires_at, pick the code.
ShortenBegin(w, data) ==
    /\ pc[w] = "idle"
    /\ UNCHANGED <<urls_collection, now, lk>>
    /\ LET original_url == strip(data.url)
           custom_code == strip(data.custom_code)
           validity == IntOfValidity(data.validity)
           expires_at == now + validity.v
           locals(code) == [original_url |-> original_url, custom_code |-> custom_code,
                            validity |-> validity.v, expires_at |-> expires_at,
                            short_code |-> code]
       IN  IF ~data.is_json THEN Reply(w, Error(w, 400, "Request must be JSON"))
           ELSE IF ~validity.ok THEN Reply(w, Error(w, 500, "ValueError"))
           ELSE IF original_url = <<>> THEN Reply(w, Error(w, 400, "URL is required"))
           ELSE IF ~validators_url(original_url) THEN Reply(w, Error(w, 400, "Invalid URL format"))
           ELSE IF custom_code # <<>>
                THEN IF ~is_valid_custom_code(custom_code)
                     THEN Reply(w, Error(w, 400, "Custom code can only contain letters, numbers, hyphens and underscores (max 20 chars)"))
                     ELSE /\ req' = [req EXCEPT ![w] = locals(custom_code)]
                          /\ pc' = [pc EXCEPT ![w] = "find"]
                          /\ out' = Nothing
                ELSE \E code \in generate_short_code(CodeLength) :
                          /\ req' = [req EXCEPT ![w] = locals(code)]
                          /\ pc' = [pc EXCEPT ![w] = "find"]
                          /\ out' = Nothing

\* Lines 91-95 (custom code) and 101-102 (random code): one find_one.
ShortenFind(w) ==
    /\ pc[w] = "find"
    /\ UNCHANGED <<urls_collection, now, lk>>
    /\ LET existing == find_one(req[w].short_code)
       IN  IF req[w].custom_code # <<>>
           THEN IF existing # None
                THEN Reply(w, Error(w, 400, "This custom URL is already taken"))
                ELSE /\ pc' = [pc EXCEPT ![w] = "insert"]
                     /\ out' = Nothing
                     /\ UNCHANGED req
           ELSE IF existing # None
                THEN /\ \E code \in generate_short_code(CodeLength) :
                            req' = [req EXCEPT ![w].short_code = code]
                     /\ out' = Nothing
                     /\ UNCHANGED pc
                ELSE /\ pc' = [pc EXCEPT ![w] = "insert"]
                     /\ out' = Nothing
                     /\ UNCHANGED req

NewDoc(w) ==
    [original_url |-> req[w].original_url,
     short_code |-> req[w].short_code,
     visits |-> 0,
     created_at |-> now,
     last_accessed |-> <<>>,
     expires_at |-> req[w].expires_at,
     is_custom |-> req[w].custom_code # <<>>,
     validity_minutes |-> req[w].validity]

\* Lines 105-114: insert_one; the unique index raises DuplicateKeyError, which
\* nothing catches (Flask answers 500).
ShortenInsert(w) ==
    /\ pc[w] = "insert"
    /\ UNCHANGED <<now, lk>>
    /\ IF DuplicateKey(req[w].short_code)
       THEN /\ Reply(w, Error(w, 500, "DuplicateKeyError"))
            /\ UNCHANGED urls_collection
       ELSE /\ Cardinality(urls_collection) < MaxDocs
            /\ urls_collection' = urls_collection \cup {NewDoc(w)}
            /\ pc' = [pc EXCEPT ![w] = "respond"]
            /\ out' = Nothing
            /\ UNCHANGED req

\* Lines 116-123: the 200 response.
ShortenRespond(w) ==
    /\ pc[w] = "respond"
    /\ UNCHANGED <<urls_collection, now, lk>>
    /\ Reply(w, [op |-> "shorten", status |-> 200, worker |-> w,
                 custom_code |-> req[w].custom_code,
                 original_url |-> req[w].original_url,
                short_code |-> req[w].short_code,
                 expires_at |-> req[w].expires_at,
                 st |-> "created",
                 is_custom |-> req[w].custom_code # <<>>])

\* ------------------------------------------------- GET /<short_code>
\* What a lookup handler keeps of the document it fetched: the fields the
\* rest of the handler reads.
Fetched(url) ==
    IF url = None THEN None
    ELSE [original_url |-> url.original_url, short_code |-> url.short_code,
          expires_at |-> url.expires_at, visits |-> url.visits]

\* Lines 128-132: find_one_and_update(..., return_document=True), one atomic
\* update that returns the document as updated, or None.
RedirectUpdate(short_code) ==
    /\ lk = Idle
    /\ UNCHANGED <<now, pc, req>>
    /\ out' = Nothing
    /\ LET found == find_one(short_code)
       IN  IF found = None
           THEN /\ lk' = [op |-> "redirect", url |-> None]
                /\ UNCHANGED urls_collection
           ELSE /\ found.visits < MaxVisits
                /\ urls_collection' = (urls_collection \ {found}) \cup {Touched(found, now)}
                /\ lk' = [op |-> "redirect", url |-> Fetched(Touched(found, now))]

\* Lines 134-140.
RedirectRespond ==
    /\ lk.op = "redirect"
    /\ UNCHANGED <<urls_collection, now, pc, req>>
    /\ lk' = Idle
    /\ out' =
          IF lk.url = None THEN [op |-> "redirect", status |-> 404, error |-> "URL not found"]
          ELSE IF Expired(lk.url, now)
               THEN [op |-> "redirect", status |-> 410, error |-> "URL has expired",
                     url |-> lk.url]
               ELSE [op |-> "redirect", status |-> 302, location |-> lk.url.original_url,
                     url |-> lk.url]

\* ------------------------------------------------- GET /api/url/<short_code>
\* A lookup that fetches the way the redirect does, counting the visit.
GetFind_Counting(short_code) ==
    /\ lk = Idle
    /\ UNCHANGED <<now, pc, req>>
    /\ out' = Nothing
    /\ LET found == find_one(short_code)
       IN  IF found = None
           THEN /\ lk' = [op |-> "get", url |-> None]
                /\ UNCHANGED urls_collection
           ELSE /\ found.visits < MaxVisits
                /\ urls_collection' = (urls_collection \ {found}) \cup {Touched(found, now)}
                /\ lk' = [op |-> "get", url |-> Fetched(Touched(found, now))]

\* Line 144.
GetFind(short_code) ==
    /\ lk = Idle
    /\ UNCHANGED <<urls_collection, now, pc, req>>
    /\ out' = Nothing
    /\ lk' = [op |-> "get", url |-> Fetched(find_one(short_code))]

\* Lines 146-157.
GetRespond ==
    /\ lk.op = "get"
    /\ UNCHANGED <<urls_collection, now, pc, req>>
    /\ lk' = Idle
    /\ out' =
          IF lk.url = None THEN [op |-> "get", status |-> 404, error |-> "URL not found"]
          ELSE IF Expired(lk.url, now)
               THEN [op |-> "get", status |-> 410, error |-> "URL has expired", url |-> lk.url]
               ELSE [op |-> "get", status |-> 200, url |-> lk.url,
                     body |-> [original_url |-> lk.url.original_url,
                               short_code |-> lk.url.short_code,
                               expires_at |-> lk.url.expires_at,
                               visits |-> lk.url.visits]]

\* ------------------------------------------------- GET /api/stats/<short_code>
get_url_stats(short_code) ==
    /\ lk = Idle
    /\ UNCHANGED <<urls_collection, now, pc, req, lk>>
    /\ LET url == find_one(short_code)
       IN  out' =
             IF url = None
             THEN [op |-> "stats", status |-> 404, code |-> short_code, error |-> "URL not found"]
             ELSE [op |-> "stats", status |-> 200, code |-> short_code,
                   body |-> [original_url |-> url.original_url,
                             short_code |-> url.short_code,
                             visits |-> url.visits,
                             created_at |-> url.created_at,
                             last_accessed |-> url.last_accessed,
                             expires_at |-> url.expires_at,
                             is_custom |-> url.is_custom,
                             validity_minutes |-> url.validity_minutes]]

\* ------------------------------------------------- GET /api/recent
RecentQuery(t) ==
    {Limit(s, RecentLimit) : s \in SortDesc({d \in urls_collection : RecentFilter(d, t)})}

recent_urls ==
    /\ lk = Idle
    /\ UNCHANGED <<urls_collection, now, pc, req, lk>>
    /\ \E recent \in RecentQuery(now) :
          out' = [op |-> "recent", status |-> 200, at |-> now,
                      body |-> [i \in 1..Len(recent) |->
                                  [short_code |-> recent[i].short_code,
                                   original_url |-> recent[i].original_url,
                                   visits |-> recent[i].visits,
                                   created_at |-> recent[i].created_at,
                                   last_accessed |-> recent[i].last_accessed,
                                   expires_at |-> recent[i].expires_at,
                                   is_custom |-> recent[i].is_custom]]]

\* ------------------------------------------------- GET /api/check-code/<short_code>
check_code_availability(short_code) ==
    /\ lk = Idle
    /\ UNCHANGED <<urls_collection, now, pc, req, lk>>
    /\ out' =
          IF ~is_valid_custom_code(short_code)
          THEN [op |-> "check", status |-> 200, code |-> short_code, at |-> now,
                available |-> FALSE, message |-> "Invalid code format"]
          ELSE LET existing == \E d \in urls_collection : CheckFilter(d, short_code, now)
               IN  [op |-> "check", status |-> 200, code |-> short_code, at |-> now,
                    available |-> ~existing,
                    message |-> IF existing THEN "Code already in use" ELSE "Code available"]

\* ------------------------------------------------- the background job
\* Lines 213-215.  The job fires on the scheduler's own timer; the model lets
\* it fire at any instant.
cleanup_expired_urls ==
    /\ UNCHANGED <<now, pc, req, lk>>
    /\ urls_collection' = {d \in urls_collection : ~CleanupFilter(d, now)}
    /\ out' = [op |-> "cleanup", status |-> 0, at |-> now,
               deleted_count |-> Cardinality({d \in urls_collection : CleanupFilter(d, now)})]

\* ------------------------------------------------- the clock
Tick ==
    /\ now < MaxTime
    /\ now' = now + 1
    /\ out' = Nothing
    /\ UNCHANGED <<urls_collection, pc, req, lk>>

\* ------------------------------------------------------------------- Next
Shorten(W, B) ==
    \/ \E w \in W, data \in B : ShortenBegin(w, data)
    \/ \E w \in W : ShortenFind(w)
    \/ \E w \in W : ShortenInsert(w)
    \/ \E w \in W : ShortenRespond(w)

Lookup(C) ==
    \/ \E c \in C : RedirectUpdate(c)
    \/ RedirectRespond
    \/ \E c \in C : GetFind(c)
    \/ GetRespond

Query(C) ==
    \/ \E c \in C : get_url_stats(c)
    \/ recent_urls
    \/ \E c \in C : check_code_availability(c)

\* The whole service: two workers serving shorten requests, a lookup, the
\* read-only requests, the job and the clock.
Next ==
    \/ Shorten(Workers, CoreBodies)
    \/ Lookup(PathCodes)
    \/ Query(PathCodes)
    \/ cleanup_expired_urls
    \/ Tick

Spec == Init /\ [][Next]_vars

\* Concurrent shorten requests with every kind of body, the job and the clock.
NextShorten ==
    \/ Shorten(Workers, Bodies)
    \/ cleanup_expired_urls
    \/ Tick

SpecShorten == Init /\ [][NextShorten]_vars

\* Redirects and lookups of the records that one worker's requests create.
NextLookup ==
    \/ Shorten({"w1"}, GoodBodies)
    \/ Lookup(PathCodes)
    \/ cleanup_expired_urls
    \/ Tick

SpecLookup == Init /\ [][NextLookup]_vars

\* Every endpoint, the job and the clock, with one worker serving the shorten
\* requests.
NextService ==
    \/ Shorten({"w1"}, CoreBodies)
    \/ Lookup(PathCodes)
    \/ Query(PathCodes)
    \/ cleanup_expired_urls
    \/ Tick

SpecService == Init /\ [][NextService]_vars

\* The job under request traffic: shorten requests and redirects go on while
\* the scheduler keeps starting the job and the clock keeps advancing.
NextSweep ==
    \/ Shorten({"w1"}, GoodBodies)
    \/ \E c \in PathCodes : RedirectUpdate(c)
    \/ RedirectRespond
    \/ cleanup_expired_urls
    \/ Tick

\* Lines 217-219: the BackgroundScheduler starts the job at every interval,
\* whatever the requests do.
SpecSweep ==
    /\ Init
    /\ [][NextSweep]_vars
    /\ WF_vars(cleanup_expired_urls)
    /\ WF_vars(Tick)

\* Stats, recent and check-code requests over the records that one worker's
\* requests create.
NextQuery ==
    \/ Shorten({"w1"}, GoodBodies)
    \/ Query(QueryCodes)
    \/ cleanup_expired_urls
    \/ Tick

SpecQuery == Init /\ [][NextQuery]_vars

\* The recent list over a collection that starts with up to RecentLimit + 2
\* records.
InitRecent ==
    /\ urls_collection \in SeedStores
    /\ now = 0
    /\ pc = [w \in Workers |-> "idle"]
    /\ req = [w \in Workers |-> NoReq]
    /\ lk = Idle
    /\ out = Nothing

NextRecent ==
    \/ Shorten({"w1"}, GoodBodies)
    \/ recent_urls
    \/ cleanup_expired_urls
    \/ Tick

SpecRecent == InitRecent /\ [][NextRecent]_vars

\* ----------------------------------------------------------------- claims
Holding(code) == {d \in urls_collection : d.short_code = code}

Created == out.op = "shorten" /\ out.status = 200

CodeTaken == out.op = "shorten" /\ out.status = 400
             /\ out.error = "This custom URL is already taken"

UniqueCodes == \A d1, d2 \in urls_collection : d1.short_code = d2.short_code => d1 = d2

\* C1 (as stated): no two stored records have the same short_code, and the
\* short_code a successful shorten request returns identifies exactly one
\* stored record at the moment it is returned.
C1_Original ==
    /\ UniqueCodes
    /\ Created => Cardinality(Holding(out.short_code)) = 1

\* C1 (amended): no two stored records have the same short_code, and the
\* short_code a successful shorten request returns identifies exactly one
\* stored record at the moment it is returned, or none when the record was
\* already expired and the cleanup job deleted it before the response.
C1_UniqueCodes ==
    /\ UniqueCodes
    /\ Created => \/ Cardinality(Holding(out.short_code)) = 1
                  \/ Holding(out.short_code) = {} /\ out.expires_at < now

\* A request has just been answered with its code while another request is
\* about to insert the same code.
C1_Witness ==
    /\ Created
    /\ Cardinality(Holding(out.short_code)) = 1
    /\ \E w \in Workers : pc[w] = "insert" /\ req[w].short_code = out.short_code

\* C2: a shorten request that carries a valid custom code ends as created or
\* as CodeTaken (400), never in another failure: of two concurrent requests
\* with the same custom code one creates the record and the other gets
\* CodeTaken.
C2_CustomEndsCreatedOrTaken ==
    (/\ out.op = "shorten"
     /\ out.custom_code # <<>>
     /\ \A d \in Holding(out.custom_code) : d.is_custom)
    => (Created \/ CodeTaken)

\* C3: when a record with short_code c is stored, expired or not, the check of
\* a shorten request with custom code c ends the request with CodeTaken and
\* leaves the store as it was.
C3_TakenLeavesStore ==
    [][\A w \in Workers :
         (/\ ShortenFind(w)
          /\ req[w].custom_code # <<>>
          /\ Holding(req[w].custom_code) # {})
         => (CodeTaken' /\ out'.worker = w /\ urls_collection' = urls_collection)]_vars

\* CodeTaken was just answered for a code whose record is expired and not swept.
C3_Witness ==
    /\ CodeTaken
    /\ \E d \in Holding(out.custom_code) : d.expires_at < now

Redirected(status) == out.op = "redirect" /\ out.status = status

Got(status) == out.op = "get" /\ out.status = status

\* C4: a redirect of a record that is stored, expired and not swept adds
\* exactly 1 to its visits, sets its last_accessed, leaves every other record
\* alone, and is answered 410, not 404; answering does not undo the update.
C4_ExpiredRedirectCounts ==
    [][/\ \A c \in PathCodes : \A d \in Holding(c) :
            (RedirectUpdate(c) /\ d.expires_at < now)
            => /\ urls_collection' = (urls_collection \ {d})
                     \cup {[d EXCEPT !.visits = d.visits + 1, !.last_accessed = <<now>>]}
               /\ lk'.url # None
               /\ lk'.url.expires_at = d.expires_at
       /\ (RedirectRespond /\ lk.url # None /\ lk.url.expires_at < now)
            => (Redirected(410)' /\ urls_collection' = urls_collection)]_vars

\* A redirect of an expired record has just been answered 410 and the record
\* is stored with the visit counted.
C4_Witness ==
    /\ Redirected(410)
    /\ \E d \in Holding(out.url.short_code) :
          d.visits = out.url.visits /\ d.visits > 0 /\ d.last_accessed # <<>>

\* C5: the read-only get leaves the whole store as it was, whatever the code
\* and whatever it answers.
C5_GetReadsOnly ==
    [][((\E c \in PathCodes : GetFind(c)) \/ GetRespond)
       => urls_collection' = urls_collection]_vars

\* A get of an expired record that redirects have visited was answered 410.
C5_Witness ==
    /\ Got(410)
    /\ \E d \in Holding(out.url.short_code) : d.visits > 0

\* C6: a redirect answers 302, and a get answers the record summary, only for
\* a record that was found and whose expires_at is not before the time of the
\* answer; the URL sent is that record's.
C6_NoExpiredUrl ==
    (Redirected(302) \/ Got(200))
    => /\ out.url # None
       /\ ~(out.url.expires_at < now)
       /\ Redirected(302) => out.location = out.url.original_url
       /\ Got(200) => out.body.original_url = out.url.original_url

\* A redirect was answered 302 at the very minute the record expires.
C6_Witness ==
    /\ Redirected(302)
    /\ out.url.expires_at = now

\* C7: a cleanup run at time t removes exactly the records with
\* expires_at < t: every record with expires_at >= t stays as it was, none
\* with expires_at < t remains, and the count printed is the number removed.
C7_CleanupExact ==
    [][cleanup_expired_urls
       => /\ \A d \in urls_collection : d.expires_at >= now => d \in urls_collection'
          /\ \A d \in urls_collection' : d \in urls_collection /\ d.expires_at >= now
          /\ out'.deleted_count = Cardinality(urls_collection \ urls_collection')]_vars

\* A run has just removed a record and kept one that expires this very minute.
C7_Witness ==
    /\ out.op = "cleanup"
    /\ out.deleted_count >= 1
    /\ \E d \in urls_collection : d.expires_at = now

Live(d, t) == d.expires_at > t

Listed == {out.body[i].short_code : i \in 1..Len(out.body)}

RecentCommon ==
    /\ Len(out.body) <= 5
    /\ \A i \in 1..Len(out.body) :
          /\ out.body[i].expires_at > now
          /\ \E d \in urls_collection :
                /\ d.short_code = out.body[i].short_code
                /\ d.created_at = out.body[i].created_at
                /\ d.expires_at = out.body[i].expires_at
    /\ \A d \in urls_collection :
          (Live(d, now) /\ d.short_code \notin Listed)
          => \A i \in 1..Len(out.body) : d.created_at <= out.body[i].created_at

\* C8 (as stated): the recent list has at most 5 records, all with
\* expires_at > now, strictly ordered by created_at descending, and no
\* unexpired record left out is newer than a listed one.
C8_Original ==
    out.op = "recent"
    => /\ RecentCommon
       /\ \A i, j \in 1..Len(out.body) :
             i < j => out.body[i].created_at > out.body[j].created_at

\* C8 (amended): the recent list has at most 5 records, all with
\* expires_at > now, ordered by created_at descending with records of equal
\* created_at in either order, and no unexpired record left out is newer than
\* a listed one.
C8_RecentList ==
    out.op = "recent"
    => /\ RecentCommon
       /\ \A i, j \in 1..Len(out.body) :
             i < j => out.body[i].created_at >= out.body[j].created_at

\* A list of 5 records was answered while more unexpired records are stored
\* and an expired one is stored too.
C8_Witness ==
    /\ out.op = "recent"
    /\ Len(out.body) = 5
    /\ Cardinality({d \in urls_collection : Live(d, now)}) > 5
    /\ \E d \in urls_collection : ~Live(d, now)

\* The format check-code and shorten require of a custom code, as the
\* documentation states it: 1 to 20 symbols, each a letter, a digit, a hyphen
\* or an underscore.
WellFormed(code) ==
    /\ Len(code) \in 1..20
    /\ \A i \in 1..Len(code) : code[i] \in {"a", "b", "9", "-", "_"}

\* C9: check-code answers available=false for every malformed code; for a
\* well-formed code it answers available=true exactly when no stored record
\* has that code with expires_at > now; it never changes the store.
C9_CheckCode ==
    [][\A c \in QueryCodes :
         check_code_availability(c)
         => /\ urls_collection' = urls_collection
            /\ out'.op = "check" /\ out'.code = c
            /\ ~WellFormed(c) => ~out'.available
            /\ WellFormed(c) =>
                  (out'.available <=> ~\E d \in Holding(c) : d.expires_at > now)]_vars

\* check-code has just answered "in use" for a well-formed code that an
\* unexpired record holds.
C9_Witness ==
    /\ out.op = "check"
    /\ ~out.available
    /\ WellFormed(out.code)
    /\ \E d \in Holding(out.code) : d.expires_at > now

\* C10: while a record with code c is stored, expired and not swept,
\* check-code(c) answers available=true and a shorten request with custom code
\* c is refused with CodeTaken; once no record holds c (the cleanup job has
\* removed it) the same request inserts its record and is answered created.
C10_AvailableYetTaken ==
    [][/\ \A c \in QueryCodes :
            (/\ check_code_availability(c)
             /\ WellFormed(c)
             /\ Holding(c) # {}
             /\ \A d \in Holding(c) : d.expires_at < now)
            => out'.available
       /\ \A w \in Workers :
            /\ (/\ ShortenFind(w)
                /\ req[w].custom_code # <<>>
                /\ \E d \in Holding(req[w].custom_code) : d.expires_at < now)
               => CodeTaken'
            /\ (/\ ShortenFind(w)
                /\ req[w].custom_code # <<>>
                /\ Holding(req[w].custom_code) = {})
               => (pc'[w] = "insert" /\ Holding(req[w].custom_code)' = {})
            /\ (/\ ShortenInsert(w)
                /\ req[w].custom_code # <<>>
                /\ Holding(req[w].custom_code) = {})
               => (pc'[w] = "respond" /\ Cardinality(Holding(req[w].custom_code)') = 1)
            /\ ShortenRespond(w)
               => (Created' /\ out'.short_code = req[w].short_code)]_vars

\* check-code has just answered "available" for a code whose record is
\* stored, expired and not swept.
C10_Witness ==
    /\ out.op = "check"
    /\ out.available
    /\ \E d \in Holding(out.code) : d.expires_at < now /\ d.is_custom

\* The validity a body asks for, as the interface documents it: the number
\* given, 30 when the field is missing or is no number.
DocumentedValidity(j) ==
    IF j.t = "num" \/ (j.t = "str" /\ j.numeric) THEN j.v ELSE DefaultValidity

C12_StatsIgnoresExpiry ==
    [][\A c \in QueryCodes :
         get_url_stats(c)
         => /\ urls_collection' = urls_collection
            /\ out'.op = "stats" /\ out'.code = c
            /\ (out'.status = 404) <=> (Holding(c) = {})
            /\ \A d \in Holding(c) :
                  /\ out'.status = 200
                  /\ out'.body.short_code = c
                  /\ out'.body.original_url = d.original_url
                  /\ out'.body.visits = d.visits
                  /\ out'.body.created_at = d.created_at
                  /\ out'.body.last_accessed = d.last_accessed
                  /\ out'.body.expires_at = d.expires_at
                  /\ out'.body.is_custom = d.is_custom
                  /\ out'.body.validity_minutes = d.validity_minutes]_vars

\* stats has just answered the record of a code that expired and is not swept.
C12_Witness ==
    /\ out.op = "stats"
    /\ out.status = 200
    /\ out.body.expires_at < now
    /\ Holding(out.code) # {}

\* C13: a shorten request without a custom code never ends in a failure that
\* a code collision caused: when the code is held at the insert it picks a
\* new one and tries again, so it only ends as created.
C13_RandomNeverCollides ==
    [][\A w \in Workers :
         (ShortenInsert(w) /\ req[w].custom_code = <<>>)
         => \/ pc'[w] = "respond" /\ Holding(req[w].short_code)' # {}
            \/ pc'[w] \in {"find", "insert"} /\ out' = Nothing]_vars

\* The record that holds, after the step, the code that d holds before it.
Kept(d) == {e \in urls_collection' : e.short_code = d.short_code}

C15_ExpiryFromCreation ==
    \A d \in urls_collection : d.expires_at = d.created_at + d.validity_minutes

\* C16: a stored record keeps its short_code, original_url, created_at,
\* expires_at, is_custom and validity_minutes; a redirect changes only visits
\* and last_accessed of the one record with its code; the job only deletes;
\* shorten only adds; get, stats, recent and check-code leave the store as
\* it is.
C16_Frame ==
    [][/\ \A d \in urls_collection : \A e \in Kept(d) :
            /\ e.original_url = d.original_url
            /\ e.created_at = d.created_at
            /\ e.expires_at = d.expires_at
            /\ e.is_custom = d.is_custom
            /\ e.validity_minutes = d.validity_minutes
            /\ e # d => RedirectUpdate(d.short_code)
       /\ \A c \in PathCodes :
            RedirectUpdate(c)
            => /\ \A d \in urls_collection \ Holding(c) : d \in urls_collection'
               /\ \A d \in Holding(c) : Kept(d) # {}
               /\ Cardinality(urls_collection') = Cardinality(urls_collection)
       /\ cleanup_expired_urls => urls_collection' \subseteq urls_collection
       /\ Shorten({"w1"}, CoreBodies) => urls_collection \subseteq urls_collection'
       /\ (\/ RedirectRespond
           \/ GetRespond
           \/ \E c \in PathCodes : GetFind(c)
           \/ Query(PathCodes)
           \/ Tick) => urls_collection' = urls_collection]_vars

\* A record with a custom code was redirected after the clock moved and is
\* stored with everything but visits and last_accessed as it was created.
C16_Witness ==
    /\ lk.op = "redirect"
    /\ lk.url # None
    /\ \E d \in Holding(lk.url.short_code) :
          /\ d.is_custom
          /\ d.visits = 1
          /\ d.last_accessed = <<now>>
          /\ d.created_at < now

\* C17: visits is 0 in a record as created, never below 0, and no step
\* lowers the visits of a record that stays stored.
C17_VisitsMonotone ==
    [][\A e \in urls_collection' :
         /\ e.visits >= 0
         /\ \A d \in Holding(e.short_code) : e.visits >= d.visits
         /\ Holding(e.short_code) = {} => e.visits = 0]_vars

\* A record has been redirected up to the bound while another, just created,
\* has no visit.
C17_Witness ==
    /\ \E d \in urls_collection : d.visits = MaxVisits
    /\ \E d \in urls_collection : d.visits = 0

ExpiredHolder(c) == \E d \in Holding(c) : d.expires_at < now

\* C18: with the job started again and again and the clock advancing, a
\* record whose expires_at is in the past is eventually deleted, whatever
\* requests are served meanwhile.
C18_ExpiredEventuallySwept ==
    \A c \in {RandomA, RandomB} : ExpiredHolder(c) ~> ~ExpiredHolder(c)

\* The job has just deleted an expired record while a redirect that counted
\* a visit is still to be answered, and no expired record is left.
C18_Witness ==
    /\ out.op = "cleanup"
    /\ out.deleted_count >= 1
    /\ lk.op = "redirect"
    /\ lk.url # None
    /\ \A d \in urls_collection : ~(d.expires_at < now)

\* C19: for a well-formed code, check-code answers available=false exactly
\* when get and redirect would answer with the record at that instant (a
\* record holds the code and is not expired for them), the instant
\* expires_at = now included.
C19_EndpointsAgree ==
    (out.op = "check" /\ WellFormed(out.code) /\ out.at = now)
    => (~out.available
          <=> (find_one(out.code) # None /\ ~Expired(find_one(out.code), now)))

====
